---- MODULE Spec2Model ----
(***************************************************************************)
(* Relatedness and unified search of gunba/taxiv.                          *)
(*                                                                         *)
(* Part I  (SpecPush):  the approximate personalised PageRank push of      *)
(*   backend/services/relatedness_engine.py and the fingerprint built on   *)
(*   it, run step by step on small typed-edge subgraphs.                   *)
(* Part II (Spec): the graph-version protocol: graph_meta, the fingerprint *)
(*   and baseline tables, the response cache, concurrent searches, version *)
(*   bumps and the two ingest pipelines.                                   *)
(*                                                                         *)
(* Masses are fixed-point integers: One stands for the float 1.0.  One is  *)
(* 40^5 so that the products with GAMMA = 11/20, with a row probability 1  *)
(* or 1/2 and with a seed weight in sixteenths are exact; EPS is scaled to *)
(* the smallest threshold above GAMMA^Depth, which stops a chain of pushes *)
(* before the arithmetic would round (the program's 1e-6 corresponds to a  *)
(* Depth of about 23).  The variable exact records that no division        *)
(* rounded; ExactArithmetic is checked with every claim of SpecPush.       *)
(***************************************************************************)
EXTENDS Integers, Sequences, FiniteSets, TLC

\* ------------------------------------------------------------------ bounds
Depth == 3

\* ------------------------------------------------------- program constants
GammaDen == 20
\* a push that keeps all the mass moving
GammaNumNoDecay == GammaDen

GammaNum == 11
ALPHA_CIT == 9
ALPHA_HIER == 4
ALPHA_TERM == 4
ALPHA_SEM == 1
TOP_K == 200

RECURSIVE Pow(_, _)
Pow(b, n) == IF n = 0 THEN 1 ELSE b * Pow(b, n - 1)

One == Pow(40, 5)
EPS == Pow(22, Depth) * Pow(40, 5 - Depth) + 1

\* ----------------------------------------------------------------- helpers
Range(s) == {s[i] : i \in 1..Len(s)}

RECURSIVE SumSeq(_)
SumSeq(s) == IF s = <<>> THEN 0 ELSE Head(s) + SumSeq(Tail(s))

RECURSIVE SumFn(_, _)
SumFn(f, S) ==
  IF S = {} THEN 0
  ELSE LET x == CHOOSE y \in S : TRUE IN f[x] + SumFn(f, S \ {x})

RECURSIVE SetToSeq(_)
SetToSeq(S) ==
  IF S = {} THEN <<>>
  ELSE LET x == CHOOSE y \in S : \A z \in S : y <= z IN <<x>> \o SetToSeq(S \ {x})

SelectIdx(s, I) ==
  LET idx == SetToSeq(I) IN [i \in 1..Len(idx) |-> s[idx[i]]]

\* ================================================================= Part I
Nodes == {"a", "b", "c"}
NodeOrder == <<"a", "b", "c">>

\* typed edges the subgraph expansion may hand over, in list order
CandidateEdges ==
  << <<"a", "b", "cit">>, <<"a", "c", "cit">>, <<"b", "a", "cit">>,
     <<"b", "b", "cit">>, <<"c", "b", "hier">>, <<"b", "c", "term">>,
     <<"c", "a", "sem">> >>

ViewWeight(view) ==
  CASE view = "cit" -> ALPHA_CIT
    [] view = "hier" -> ALPHA_HIER
    [] view = "term" -> ALPHA_TERM
    [] view = "sem" -> ALPHA_SEM
    [] OTHER -> 0

\* a row is a sequence of <<neighbour, weight>> in dict insertion order
RowAdd(row, target, w) ==
  IF \E i \in 1..Len(row) : row[i][1] = target
  THEN [i \in 1..Len(row) |->
          IF row[i][1] = target THEN <<target, row[i][2] + w>> ELSE row[i]]
  ELSE Append(row, <<target, w>>)

RECURSIVE AddEdges(_, _)
AddEdges(adjacency, edges) ==
  IF edges = <<>> THEN adjacency
  ELSE LET e == Head(edges)
           w == ViewWeight(e[3])
       IN AddEdges(IF w = 0 THEN adjacency
                   ELSE [adjacency EXCEPT ![e[1]] = RowAdd(@, e[2], w)],
                   Tail(edges))

\* _build_weighted_adjacency: sum the view weights per (source, target), then
\* give every node of the node set whose row is empty a self-loop of 1.0
\* (20 in ALPHA units of 0.05)
_build_weighted_adjacency(nodes, typed_edges) ==
  LET summed == AddEdges([n \in Nodes |-> <<>>], typed_edges)
  IN [n \in Nodes |->
        IF n \in nodes /\ summed[n] = <<>> THEN << <<n, 20>> >> ELSE summed[n]]

RowTotal(row) == SumSeq([i \in 1..Len(row) |-> row[i][2]])

\* _row_normalize: each entry becomes <<neighbour, weight, total>>, the
\* probability weight/total; a row whose total is not positive becomes the
\* self-loop.  Only rows the adjacency dict holds are normalised.
_row_normalize(adj, keys) ==
  [n \in keys |->
     IF RowTotal(adj[n]) <= 0 THEN << <<n, 1, 1>> >>
     ELSE [i \in 1..Len(adj[n]) |-> <<adj[n][i][1], adj[n][i][2], RowTotal(adj[n])>>]]

\* adj_norm.get(node, [(node, 1.0)])
NeighborsOf(adjn, node) ==
  IF node \in DOMAIN adjn THEN adjn[node] ELSE << <<node, 1, 1>> >>

VARIABLES
  adj_norm,    \* normalised adjacency handed to _approx_ppr_push
  seeds,       \* seed distribution: sequence of <<node, residual>>
  seed_ids,    \* the seeds compute_fingerprint(_multi) removes from the output
  ppr,         \* ppr[node]
  ppr_order,   \* nodes in the order they entered the ppr dict
  residual,    \* residual[node]
  queue,       \* FIFO of nodes
  ppc,         \* "push" while the loop runs, then "sorted", then "done"
  items,       \* sorted (node, mass) list, then the returned neighbours
  captured,    \* captured mass
  enq_log,     \* history: <<node, residual at the moment of enqueue>>
  skipped,     \* history: total of the increments dropped as < eps
  exact        \* history: no fixed-point division has rounded

pushVars == <<adj_norm, seeds, seed_ids, ppr, ppr_order, residual, queue, ppc,
              items, captured, enq_log, skipped, exact>>

\* Part II state
VARIABLES
  graph_meta,    \* graph_meta rows in id order, each row its graph_version
  fingerprints,  \* relatedness fingerprint rows by source_id
  baseline,      \* baseline pagerank rows by provision_id
  search_cache,  \* _SEARCH_CACHE: cache key -> payload
  search,        \* per request thread: position and locals of the search
  bumper,        \* per manage_graph bump-version process
  ingest,        \* the ingest job: pipeline, position, history of the run
  fp_default,    \* the value a fingerprint row gets when no graph_version is given
  bumps          \* history: number of bump commits so far

storeVars == <<graph_meta, fingerprints, baseline, search_cache, search, bumper,
               ingest, fp_default, bumps>>

\* Part III state: one request and its response
VARIABLES
  rq,   \* the request and what the store holds for it
  rs    \* the response, status "none" until the request is answered

respVars == <<rq, rs>>

\* ---- Part IV: request threads, the fingerprint table and the response cache ----
VARIABLES
  req,         \* per request thread: position, seed, locals, outcome
  fp_rows,     \* committed rows of the fingerprint table, in id order
  fp_unique,   \* whether the table refuses a second row of one source
  resp_cache   \* keys of _SEARCH_CACHE

lazyVars == <<req, fp_rows, fp_unique, resp_cache>>

\* ---- Part V: the relatedness engine's caches and subgraph expansion ----
VARIABLES
  snap_version,  \* graph version of the store
  pcache,        \* _PARENT_CHILD_CACHE: its keys in insertion order
  recency,       \* history: the versions requested, least recently used first
  evicted,       \* history: the version the last install popped, 0 for none
  lru_then       \* history: the least recently used key when it was popped

snapVars == <<snap_version, pcache, recency, evicted, lru_then>>

VARIABLES
  bfs_refs,    \* the Reference table: rows <<source, target>> in query order
  bfs_seeds,   \* the seeds handed to _expand_local_subgraph
  bfs          \* position and locals of the citation expansion

bfsVars == <<bfs_refs, bfs_seeds, bfs>>

VARIABLES
  ps           \* the searches that aggregate relatedness: position and locals

persistVars == <<ps>>

engVars == <<snapVars, bfsVars, persistVars>>

vars == <<pushVars, storeVars, respVars, lazyVars, engVars>>

\* ---- inputs of the push: subgraphs and seed distributions ----
\* rows the fixed-point arithmetic divides exactly: uniform, one or two entries
UniformRow(row) ==
  /\ Len(row) <= 2
  /\ \A i \in 1..Len(row) : row[i][2] * Len(row) = RowTotal(row)

EdgeLists ==
  {SelectIdx(CandidateEdges, I) : I \in SUBSET (1..Len(CandidateEdges))}

InputEdgeLists ==
  {el \in EdgeLists :
     \A n \in Nodes : UniformRow(AddEdges([m \in Nodes |-> <<>>], el)[n])}

\* raw seed weights handed to compute_fingerprint_multi, in dict order
MultiWeightChoices ==
  { << <<"a", 1>>, <<"b", 1>> >>,
    << <<"a", 15>>, <<"b", 1>> >>,
    << <<"b", 1>>, <<"a", 15>> >>,
    << <<"a", 1>>, <<"c", 0>> >>,
    << <<"c", 14>>, <<"a", 1>>, <<"b", 1>> >> }

EndPoints(el) == {el[i][1] : i \in 1..Len(el)} \cup {el[i][2] : i \in 1..Len(el)}

SeedWeight(seedSeq, n) ==
  IF \E i \in 1..Len(seedSeq) : seedSeq[i][1] = n
  THEN seedSeq[CHOOSE i \in 1..Len(seedSeq) : seedSeq[i][1] = n][2]
  ELSE 0

\* the state _approx_ppr_push starts the loop in:
\*   residual = defaultdict(float, **seeds); queue = deque(seeds.keys())
StartState(seedSeq, ex) ==
  [ppr |-> [n \in Nodes |-> 0],
   ppr_order |-> <<>>,
   residual |-> [n \in Nodes |-> SeedWeight(seedSeq, n)],
   queue |-> [i \in 1..Len(seedSeq) |-> seedSeq[i][1]],
   enq_log |-> {<<seedSeq[i][1], seedSeq[i][2]>> : i \in 1..Len(seedSeq)},
   skipped |-> 0,
   exact |-> ex]

PushStart(adjn, seedSeq, sids, ex) ==
  LET st == StartState(seedSeq, ex)
  IN /\ adj_norm = adjn
     /\ seeds = seedSeq
     /\ seed_ids = sids
     /\ ppr = st.ppr
     /\ ppr_order = st.ppr_order
     /\ residual = st.residual
     /\ queue = st.queue
     /\ ppc = "push"
     /\ items = <<>>
     /\ captured = 0
     /\ enq_log = st.enq_log
     /\ skipped = st.skipped
     /\ exact = st.exact

\* compute_fingerprint: subgraph around one seed, seeds = {seed_id: 1.0}
InitSingle ==
  \E el \in InputEdgeLists, s \in Nodes :
    LET node_set == {s} \cup EndPoints(el)
        adjacency == _build_weighted_adjacency(node_set, el)
    IN PushStart(_row_normalize(adjacency, node_set), << <<s, One>> >>, {s}, TRUE)

\* compute_fingerprint_multi: cleaned = positive weights, seeds_norm = w/total
Cleaned(sw) == SelectSeq(sw, LAMBDA e : e[2] > 0)

InitMulti ==
  \E el \in InputEdgeLists, sw \in MultiWeightChoices :
    LET cleaned == Cleaned(sw)
        total == SumSeq([i \in 1..Len(cleaned) |-> cleaned[i][2]])
        node_set == {cleaned[i][1] : i \in 1..Len(cleaned)} \cup EndPoints(el)
        adjacency == _build_weighted_adjacency(node_set, el)
        seeds_norm == [i \in 1..Len(cleaned) |->
                         <<cleaned[i][1], (One * cleaned[i][2]) \div total>>]
    IN PushStart(_row_normalize(adjacency, node_set), seeds_norm,
                 {cleaned[i][1] : i \in 1..Len(cleaned)},
                 \A i \in 1..Len(cleaned) : (One * cleaned[i][2]) % total = 0)


\* ---- one iteration of the while loop of _approx_ppr_push ----
\* the for loop over the neighbours, folded over st =
\*   [ppr, ppr_order, residual, queue, enq_log, skipped, exact]
RECURSIVE Distribute(_, _, _)
Distribute(st, neighbors, push_mass) ==
  IF neighbors = <<>> THEN st
  ELSE
    LET nbr == Head(neighbors)[1]
        increment == (push_mass * Head(neighbors)[2]) \div Head(neighbors)[3]
        ex == st.exact /\ (push_mass * Head(neighbors)[2]) % Head(neighbors)[3] = 0
        prev == st.residual[nbr]
        now == prev + increment
    IN IF increment < EPS
       THEN Distribute([st EXCEPT !.skipped = @ + increment, !.exact = ex],
                       Tail(neighbors), push_mass)
       ELSE Distribute(
              [st EXCEPT !.residual = [@ EXCEPT ![nbr] = now],
                         !.queue = IF prev < EPS /\ EPS <= now THEN Append(@, nbr) ELSE @,
                         !.enq_log = IF prev < EPS /\ EPS <= now
                                     THEN @ \cup {<<nbr, now>>} ELSE @,
                         !.exact = ex],
              Tail(neighbors), push_mass)

\* the loop body on st = [ppr, ppr_order, residual, queue, enq_log, skipped,
\* exact], with gamma = gnum/gden and alpha = 1 - gamma
PushBody(st, adjn, gnum, gden) ==
  LET node == Head(st.queue)
      value == st.residual[node]
  IN IF value < EPS
     THEN [st EXCEPT !.queue = Tail(@)]
     ELSE
       LET push_mass == (gnum * value) \div gden
           popped == [st EXCEPT
                        !.ppr = [@ EXCEPT ![node] = @ + (value - push_mass)],
                        !.ppr_order = IF node \in Range(@) THEN @ ELSE Append(@, node),
                        !.residual = [@ EXCEPT ![node] = 0],
                        !.queue = Tail(@),
                        !.exact = @ /\ (gnum * value) % gden = 0]
       IN Distribute(popped, NeighborsOf(adjn, node), push_mass)

PushState ==
  [ppr |-> ppr, ppr_order |-> ppr_order, residual |-> residual, queue |-> queue,
   enq_log |-> enq_log, skipped |-> skipped, exact |-> exact]

PushStep ==
  /\ ppc = "push"
  /\ queue # <<>>
  /\ \E st \in {PushBody(PushState, adj_norm, GammaNum, GammaDen)} :
        /\ ppr' = st.ppr
        /\ ppr_order' = st.ppr_order
        /\ residual' = st.residual
        /\ queue' = st.queue
        /\ enq_log' = st.enq_log
        /\ skipped' = st.skipped
        /\ exact' = st.exact
  /\ UNCHANGED <<adj_norm, seeds, seed_ids, ppc, items, captured>>
  /\ UNCHANGED <<storeVars, respVars, lazyVars, engVars>>

\* sorted(ppr.items(), key=mass, reverse=True): stable, descending
RECURSIVE InsertDesc(_, _)
InsertDesc(sorted, e) ==
  IF sorted = <<>> THEN <<e>>
  ELSE IF Head(sorted)[2] >= e[2] THEN <<Head(sorted)>> \o InsertDesc(Tail(sorted), e)
  ELSE <<e>> \o sorted

RECURSIVE SortDesc(_)
SortDesc(s) ==
  IF s = <<>> THEN <<>>
  ELSE InsertDesc(SortDesc(SubSeq(s, 1, Len(s) - 1)), s[Len(s)])

Take(s, n) == SubSeq(s, 1, IF Len(s) < n THEN Len(s) ELSE n)

\* the tail of _approx_ppr_push: items = sorted(...)[:top_k], captured = sum
PushResult(st) ==
  LET top == Take(SortDesc([i \in 1..Len(st.ppr_order) |->
                              <<st.ppr_order[i], st.ppr[st.ppr_order[i]]>>]), TOP_K)
  IN [items |-> top, captured |-> SumSeq([i \in 1..Len(top) |-> top[i][2]])]

\* mutant: the items are capped and the seeds stay in them
DropNoSeeds(res, sids) ==
  [items |-> Take(res.items, TOP_K), captured |-> res.captured]

\* mutant: captured summed over the list after the seeds were dropped
DropSeedsThenSum(res, sids) ==
  LET kept == Take(SelectSeq(res.items, LAMBDA e : e[1] \notin sids), TOP_K)
  IN [items |-> kept, captured |-> SumSeq([i \in 1..Len(kept) |-> kept[i][2]])]

\* compute_fingerprint / compute_fingerprint_multi: drop the seeds from the
\* items, keep the captured mass _approx_ppr_push summed
DropSeeds(res, sids) ==
  [items |-> Take(SelectSeq(res.items, LAMBDA e : e[1] \notin sids), TOP_K),
   captured |-> res.captured]

\* the loop has ended: _approx_ppr_push returns and its caller drops the seeds
PushReturn ==
  /\ ppc = "push"
  /\ queue = <<>>
  /\ \E fp \in {DropSeeds(PushResult(PushState), seed_ids)} :
        /\ captured' = fp.captured
        /\ items' = fp.items
  /\ ppc' = "done"
  /\ UNCHANGED <<adj_norm, seeds, seed_ids, ppr, ppr_order, residual, queue,
                 enq_log, skipped, exact>>
  /\ UNCHANGED <<storeVars, respVars, lazyVars, engVars>>

\* ================================================================ Part II
\* ------------------------------------------------------------------ bounds
NumSearches == 2
MaxCalls == 1
NumBumpers == 2
MaxIngestRuns == 2

\* ------------------------------------------------------- program constants
SEED_MULTI_THRESHOLD == 3
IndexerGammaNum == 1
IndexerGammaDen == 2

Searches == 1..NumSearches
Bumpers == 1..NumBumpers

\* the corpus: two provisions of one act, "a" cites "b"; both are top-level
Provisions == {"a", "b"}
ACT == "ACT"
References == << <<"a", "b", "cit">> >>
\* the Indexer also links adjacent siblings, top-level provisions included
IndexerEdges == << <<"a", "b", "cit">>, <<"a", "b", "hier">>, <<"b", "a", "hier">> >>

\* interpretation["provisions"] of the queries the requests carry
Queries == { <<"a">>, <<"a", "b">> }
RawKs == {10}
RawOffsets == {0}

Max(x, y) == IF x >= y THEN x ELSE y
Min(x, y) == IF x <= y THEN x ELSE y
Last(sq) == sq[Len(sq)]

RECURSIVE PushRun(_, _, _, _)
PushRun(st, adjn, gnum, gden) ==
  IF st.queue = <<>> THEN st ELSE PushRun(PushBody(st, adjn, gnum, gden), adjn, gnum, gden)

\* compute_fingerprint on the corpus: the citation expansion around either
\* provision reaches the whole corpus
compute_fingerprint(seed_id) ==
  LET node_set == {seed_id} \cup EndPoints(References)
      adjn == _row_normalize(_build_weighted_adjacency(node_set, References), node_set)
      st == PushRun(StartState(<< <<seed_id, One>> >>, TRUE), adjn, GammaNum, GammaDen)
  IN DropSeeds(PushResult(st), {seed_id})

\* compute_fingerprint_multi on the corpus: one push from the normalised
\* weights of the missing seeds (each explicit seed weighs 1.0)
compute_fingerprint_multi(seed_seq) ==
  LET node_set == Range(seed_seq) \cup EndPoints(References)
      adjn == _row_normalize(_build_weighted_adjacency(node_set, References), node_set)
      seeds_norm == [i \in 1..Len(seed_seq) |-> <<seed_seq[i], One \div Len(seed_seq)>>]
      st == PushRun(StartState(seeds_norm, TRUE), adjn, GammaNum, GammaDen)
  IN DropSeeds(PushResult(st), Range(seed_seq))

\* build_relatedness_index: one push per provision over the global graph
IndexerFingerprint(prov_id) ==
  LET adjn == _row_normalize(_build_weighted_adjacency(Provisions, IndexerEdges), Provisions)
      st == PushRun(StartState(<< <<prov_id, One>> >>, TRUE), adjn,
                    IndexerGammaNum, IndexerGammaDen)
  IN DropSeeds(PushResult(st), {prov_id})

\* the fingerprints of the corpus, computed once
LazyFingerprints == [p \in Provisions |-> compute_fingerprint(p)]
IndexFingerprints == [p \in Provisions |-> IndexerFingerprint(p)]

\* get_graph_version: the row with the highest id; a table without rows is
\* seeded with version 1
CurrentVersion == IF graph_meta = <<>> THEN 1 ELSE Last(graph_meta)

Seeded(rows) == IF rows = <<>> THEN <<1>> ELSE rows

IdleSearch ==
  [pc |-> "idle", query |-> <<>>, k |-> 0, offset |-> 0, graph_version |-> 0,
   started |-> 0, unresolved |-> <<>>, reads |-> {}, related |-> {},
   calls |-> 0, cached |-> FALSE, entry_at |-> 0]

IdleBumper == [pc |-> "idle", row |-> 0, val |-> 0, ret |-> 0, fresh |-> FALSE]

IdleIngest ==
  [pc |-> "idle", pipeline |-> "none", runs |-> 0, target |-> 0, began_at |-> 0,
   before_version |-> 0, before_baseline |-> <<>>, before_fp |-> <<>>,
   loaded |-> FALSE, last_write |-> "none"]

\* the fingerprint table's model class is not among the sources: a row
\* inserted without a graph_version gets the column's default, either a value
\* no search resolves (0) or the seed version (1)
FingerprintVersionDefaults == {0, 1}

StoreInit ==
  /\ graph_meta \in {<<>>, <<1>>}
  /\ fingerprints = <<>>
  /\ baseline = <<>>
  /\ search_cache = <<>>
  /\ search = [s \in Searches |-> IdleSearch]
  /\ bumper = [b \in Bumpers |-> IdleBumper]
  /\ ingest = IdleIngest
  /\ fp_default \in FingerprintVersionDefaults
  /\ bumps = 0

\* while the push runs alone the store is at rest, and the other way round
StoreQuiet ==
  /\ graph_meta = <<>>
  /\ fingerprints = <<>>
  /\ baseline = <<>>
  /\ search_cache = <<>>
  /\ search = [s \in Searches |-> IdleSearch]
  /\ bumper = [b \in Bumpers |-> IdleBumper]
  /\ ingest = IdleIngest
  /\ fp_default = 0
  /\ bumps = 0

PushQuiet ==
  /\ adj_norm = <<>>
  /\ seeds = <<>>
  /\ seed_ids = {}
  /\ ppr = <<>>
  /\ ppr_order = <<>>
  /\ residual = <<>>
  /\ queue = <<>>
  /\ ppc = "off"
  /\ items = <<>>
  /\ captured = 0
  /\ enq_log = {}
  /\ skipped = 0
  /\ exact = TRUE

\* ---- bump_graph_version (manage_graph bump-version) ----
\* row = db.query(GraphMeta).order_by(GraphMeta.id.desc()).first()
BumpRead(b) ==
  /\ bumper[b].pc = "idle"
  /\ bumper' = [bumper EXCEPT ![b] =
       [@ EXCEPT !.pc = "write",
                 !.row = Len(graph_meta),
                 !.fresh = (graph_meta = <<>>),
                 !.val = IF graph_meta = <<>> THEN 0 ELSE Last(graph_meta)]]
  /\ UNCHANGED <<pushVars, respVars, lazyVars, engVars>>
  /\ UNCHANGED <<graph_meta, fingerprints, baseline, search_cache, search, ingest,
                 fp_default, bumps>>

\* row.graph_version += 1 on the value read (or a new row of version 1),
\* written by db.commit()
BumpWrite(rows, row, val) ==
  IF row = 0 THEN Append(rows, 1) ELSE [rows EXCEPT ![row] = val + 1]

BumpCommit(b) ==
  /\ bumper[b].pc = "write"
  /\ graph_meta' = BumpWrite(graph_meta, bumper[b].row, bumper[b].val)
  /\ bumper' = [bumper EXCEPT ![b] =
       [@ EXCEPT !.pc = "return",
                 !.row = IF @ = 0 THEN Len(graph_meta) + 1 ELSE @]]
  /\ bumps' = bumps + 1
  /\ UNCHANGED <<pushVars, respVars, lazyVars, engVars>>
  /\ UNCHANGED <<fingerprints, baseline, search_cache, search, ingest, fp_default>>

\* return row.graph_version: the commit expired the row, so this re-reads it
BumpReturn(b) ==
  /\ bumper[b].pc = "return"
  /\ bumper' = [bumper EXCEPT ![b] =
       [@ EXCEPT !.pc = "done", !.ret = graph_meta[bumper[b].row]]]
  /\ UNCHANGED <<pushVars, respVars, lazyVars, engVars>>
  /\ UNCHANGED <<graph_meta, fingerprints, baseline, search_cache, search, ingest,
                 fp_default, bumps>>

\* ---- _unified_search_single_act, explicit seeds ----
SetSearch(s, r) == search' = [search EXCEPT ![s] = r]

CacheKey(r) == <<r.query, r.k, r.offset, r.graph_version, ACT>>

\* the call starts: k and offset are clamped, get_graph_version reads the
\* newest row (seeding an empty table), the cache key is built and looked up;
\* a cached payload is returned as it is
SearchBegin(s) ==
  /\ search[s].pc = "idle"
  /\ search[s].calls < MaxCalls
  /\ graph_meta' = Seeded(graph_meta)
  /\ \E q \in Queries, k \in RawKs, offset \in RawOffsets :
       LET r == [IdleSearch EXCEPT
                   !.calls = search[s].calls,
                   !.query = q,
                   !.k = Max(1, Min(k, 100)),
                   !.offset = Max(0, offset),
                   !.started = bumps,
                   !.graph_version = CurrentVersion]
           key == CacheKey(r)
       IN IF key \in DOMAIN search_cache
          THEN SetSearch(s, [r EXCEPT !.calls = @ + 1, !.cached = TRUE,
                                      !.entry_at = search_cache[key].at])
          ELSE SetSearch(s, [r EXCEPT !.pc = "fingerprints"])
  /\ UNCHANGED <<pushVars, respVars, lazyVars, engVars>>
  /\ UNCHANGED <<fingerprints, baseline, search_cache, bumper, ingest,
                 fp_default, bumps>>

\* what a search records of a stored fingerprint it aggregates
FpRead(seed) ==
  [kind |-> "fingerprint", id |-> seed,
   graph_version |-> fingerprints[seed].graph_version,
   by |-> fingerprints[seed].by, at |-> fingerprints[seed].at]

\* get_cached_fingerprints: a row is a hit when its version is the expected
\* one and its neighbour list is not empty
FingerprintHit(seed, expected_version) ==
  /\ seed \in DOMAIN fingerprints
  /\ fingerprints[seed].graph_version = expected_version
  /\ fingerprints[seed].neighbors # <<>>

NeighborIds(neighbors) == {neighbors[i][1] : i \in 1..Len(neighbors)}

AfterSeeds(unresolved) == IF unresolved = <<>> THEN "rank" ELSE "goc"

\* get_cached_fingerprints at the version the search resolved, aggregation of
\* the hits; more than SEED_MULTI_THRESHOLD misses go to
\* compute_fingerprint_multi, which stores nothing
SearchFingerprints(s) ==
  /\ search[s].pc = "fingerprints"
  /\ LET r == search[s]
         hits == {p \in Range(r.query) : FingerprintHit(p, r.graph_version)}
         unresolved_seeds == SelectSeq(r.query, LAMBDA p : p \notin hits)
         multi == Len(unresolved_seeds) > SEED_MULTI_THRESHOLD
     IN SetSearch(s, [r EXCEPT
          !.reads = @ \cup {FpRead(p) : p \in hits},
          !.related = hits \cup UNION {NeighborIds(fingerprints[p].neighbors) : p \in hits}
                      \cup (IF multi
                            THEN Range(unresolved_seeds)
                                 \cup NeighborIds(compute_fingerprint_multi(unresolved_seeds).items)
                            ELSE {}),
          !.unresolved = IF multi THEN <<>> ELSE unresolved_seeds,
          !.pc = IF multi THEN "rank" ELSE AfterSeeds(unresolved_seeds)])
  /\ UNCHANGED <<pushVars, respVars, lazyVars, engVars>>
  /\ UNCHANGED <<graph_meta, fingerprints, baseline, search_cache, bumper, ingest,
                 fp_default, bumps>>

\* get_or_compute_and_cache for the next missing seed: the version is read
\* again; a row of that version with neighbours is returned as stored,
\* otherwise compute_fingerprint runs and the row is written with
\* graph_version = current_version and committed
SearchGetOrCompute(s) ==
  /\ search[s].pc = "goc"
  /\ graph_meta' = Seeded(graph_meta)
  /\ LET r == search[s]
         seed == Head(r.unresolved)
         current_version == CurrentVersion
         fp == LazyFingerprints[seed]
     IN IF FingerprintHit(seed, current_version)
        THEN /\ SetSearch(s, [r EXCEPT
                  !.reads = @ \cup {FpRead(seed)},
                  !.related = @ \cup {seed} \cup NeighborIds(fingerprints[seed].neighbors),
                  !.unresolved = Tail(@),
                  !.pc = AfterSeeds(Tail(r.unresolved))])
             /\ UNCHANGED fingerprints
        ELSE /\ fingerprints' = (seed :> [graph_version |-> current_version,
                                          neighbors |-> fp.items,
                                          captured |-> fp.captured,
                                          by |-> "lazy", at |-> bumps]) @@ fingerprints
             /\ SetSearch(s, [r EXCEPT
                  !.reads = @ \cup {[kind |-> "computed", id |-> seed,
                                     graph_version |-> current_version,
                                     by |-> "lazy", at |-> bumps]},
                  !.related = @ \cup {seed} \cup NeighborIds(fp.items),
                  !.unresolved = Tail(@),
                  !.pc = AfterSeeds(Tail(r.unresolved))])
  /\ UNCHANGED <<pushVars, respVars, lazyVars, engVars>>
  /\ UNCHANGED <<baseline, search_cache, bumper, ingest, fp_default, bumps>>

\* the baseline rows of the candidates (the seeds and the aggregated
\* neighbours) are read as they are stored, the payload is assembled and put
\* into the response cache under the key of the version resolved at the start
SearchRank(s) ==
  /\ search[s].pc = "rank"
  /\ LET r == search[s]
         pi_rows == {[kind |-> "baseline", id |-> p, graph_version |-> 0,
                      by |-> "indexer", at |-> baseline[p].at] :
                       p \in (Range(r.query) \cup r.related) \cap DOMAIN baseline}
         all == r.reads \cup pi_rows
     IN /\ search_cache' = (CacheKey(r) :> [reads |-> all, at |-> bumps]) @@ search_cache
        /\ SetSearch(s, [r EXCEPT !.pc = "idle", !.calls = @ + 1, !.reads = all,
                                  !.cached = FALSE, !.entry_at = bumps])
  /\ UNCHANGED <<pushVars, respVars, lazyVars, engVars>>
  /\ UNCHANGED <<graph_meta, fingerprints, baseline, bumper, ingest, fp_default, bumps>>

\* ---- the ingest job: itaa1997/run_pipeline.py or docx_pipeline.py ----
IngestBegin ==
  /\ ingest.pc \in {"idle", "done", "interrupted"}
  /\ ingest.runs < MaxIngestRuns
  /\ \E pl \in {"itaa1997", "docx"} :
       ingest' = [ingest EXCEPT
         !.pc = IF pl = "itaa1997" THEN "delete" ELSE "docx",
         !.pipeline = pl, !.runs = @ + 1, !.target = 0, !.began_at = bumps,
         !.before_version = CurrentVersion,
         !.before_baseline = baseline, !.before_fp = fingerprints,
         !.loaded = FALSE, !.last_write = "none"]
  /\ UNCHANGED <<pushVars, respVars, lazyVars, engVars>>
  /\ UNCHANGED <<graph_meta, fingerprints, baseline, search_cache, search, bumper,
                 fp_default, bumps>>

\* load_relatedness_data: the act's baseline and fingerprint rows are deleted
\* and the deletion is committed
LoadDelete ==
  /\ ingest.pc = "delete"
  /\ baseline' = [p \in DOMAIN baseline \ Provisions |-> baseline[p]]
  /\ fingerprints' = [p \in DOMAIN fingerprints \ Provisions |-> fingerprints[p]]
  /\ ingest' = [ingest EXCEPT !.pc = "baseline", !.last_write = "delete"]
  /\ UNCHANGED <<pushVars, respVars, lazyVars, engVars>>
  /\ UNCHANGED <<graph_meta, search_cache, search, bumper, fp_default, bumps>>

\* load_relatedness_data: bulk insert of the baseline rows, committed
LoadBaseline ==
  /\ ingest.pc = "baseline"
  /\ baseline' = [p \in Provisions |-> [run |-> ingest.runs, at |-> bumps]] @@ baseline
  /\ ingest' = [ingest EXCEPT !.pc = "fingerprints", !.last_write = "baseline"]
  /\ UNCHANGED <<pushVars, respVars, lazyVars, engVars>>
  /\ UNCHANGED <<graph_meta, fingerprints, search_cache, search, bumper, fp_default, bumps>>

\* load_relatedness_data: bulk insert of the fingerprint rows, committed; the
\* rows carry source, neighbours and captured mass, and no graph_version
LoadFingerprints ==
  /\ ingest.pc = "fingerprints"
  /\ fingerprints' = [p \in Provisions |->
                        [graph_version |-> fp_default,
                         neighbors |-> IndexFingerprints[p].items,
                         captured |-> IndexFingerprints[p].captured,
                         by |-> "indexer", at |-> bumps]] @@ fingerprints
  /\ ingest' = [ingest EXCEPT !.pc = "done", !.loaded = TRUE,
                              !.last_write = "fingerprints"]
  /\ UNCHANGED <<pushVars, respVars, lazyVars, engVars>>
  /\ UNCHANGED <<graph_meta, baseline, search_cache, search, bumper, fp_default, bumps>>

\* the run is interrupted between two commits of load_relatedness_data
IngestInterrupt ==
  /\ ingest.pc \in {"baseline", "fingerprints"}
  /\ ingest' = [ingest EXCEPT !.pc = "interrupted"]
  /\ UNCHANGED <<pushVars, respVars, lazyVars, engVars>>
  /\ UNCHANGED <<graph_meta, fingerprints, baseline, search_cache, search, bumper,
                 fp_default, bumps>>

\* docx_pipeline: current_version = get_graph_version(db), target = current + 1,
\* then loader.load_relatedness_data(baseline_pi, fingerprints, graph_version=...):
\* the loader takes no graph_version, the call raises TypeError before any
\* statement of it runs; the except clause of the pipeline logs the error and
\* the bump that follows the call is skipped
DocxRun ==
  /\ ingest.pc = "docx"
  /\ graph_meta' = Seeded(graph_meta)
  /\ ingest' = [ingest EXCEPT !.pc = "done", !.target = CurrentVersion + 1,
                              !.loaded = FALSE]
  /\ UNCHANGED <<pushVars, respVars, lazyVars, engVars>>
  /\ UNCHANGED <<fingerprints, baseline, search_cache, search, bumper,
                 fp_default, bumps>>

\* =============================================================== Part III
\* the response of unified_search: seeds, exclusion, ranking, pagination and
\* the merge over the acts
MaxRawK == 3
MaxRawOffset == 3

\* ------------------------------------------------------- program constants
MAX_LIMIT == 100
W_GRAPH == 65
W_LEX == 35
SEED_TOP == 12

\* two acts; "ax" is on the exclusion list of act A, "bx" on that of act B
Acts == <<"A", "B">>
ActOf == [p \in {"a1", "a2", "ax"} |-> "A"] @@ [p \in {"b1", "bx"} |-> "B"]
AllProvisions == DOMAIN ActOf
Excluded == [act \in {"A", "B"} |-> IF act = "A" THEN {"ax"} ELSE {"bx"}]

\* is_excluded_provision(act_id=..., provision_id=...): the list of the act
\* that is searched
is_excluded_provision(act_id, provision_id) == provision_id \in Excluded[act_id]

\* _belongs_to_act
_belongs_to_act(provision_id, act_id) == ActOf[provision_id] = act_id

\* a query is a sequence of tokens <<prefix, id>>; prefix "" is the shorthand
\* form, looked up in the searched act, a prefix names the act to look in
QueryTexts ==
  { <<>>,
    << <<"", "a1">> >>,
    << <<"", "ax">> >>,
    << <<"", "a1">>, <<"", "a2">> >>,
    << <<"", "a1">>, <<"", "ax">>, <<"", "a1">> >>,
    << <<"B", "b1">> >>,
    << <<"B", "bx">> >>,
    << <<"", "b1">>, <<"A", "a2">> >>,
    << <<"", "a1">>, <<"", "a2">>, <<"B", "b1">>, <<"B", "bx">> >> }

RECURSIVE Dedupe(_)
Dedupe(sq) ==
  IF sq = <<>> THEN <<>>
  ELSE LET front == Dedupe(SubSeq(sq, 1, Len(sq) - 1))
       IN IF sq[Len(sq)] \in Range(front) THEN front ELSE Append(front, sq[Len(sq)])

\* mutant: the parser leaves out the ids the searched act excludes
parse_query_unexcluded(query, act_id) ==
  LET found == SelectSeq(query, LAMBDA tk :
                 /\ IF tk[1] = "" THEN ActOf[tk[2]] = act_id ELSE ActOf[tk[2]] = tk[1]
                 /\ tk[2] \notin Excluded[act_id])
  IN Dedupe([i \in 1..Len(found) |-> found[i][2]])

\* parse_query: the ids the tokens resolve to, first occurrences kept
parse_query(query, act_id) ==
  LET found == SelectSeq(query, LAMBDA tk :
                 IF tk[1] = "" THEN ActOf[tk[2]] = act_id ELSE ActOf[tk[2]] = tk[1])
  IN Dedupe([i \in 1..Len(found) |-> found[i][2]])

\* the stored fingerprint rows: neighbour ids by source id, as the indexer of
\* the act of the source writes them: provisions of that act that the act
\* does not exclude, and no row for an excluded source
StoredNeighbors ==
  [p \in AllProvisions |->
     CASE p = "a1" -> <<"a2">>
       [] p = "a2" -> <<"a1">>
       [] OTHER -> <<>>]

\* the lexical matches of the query over all provisions, best first
LexChoices ==
  { <<>>,
    << <<"a1", 5>> >>,
    << <<"a1", 5>>, <<"a2", 5>> >>,
    << <<"ax", 5>>, <<"a2", 3>>, <<"b1", 3>>, <<"a1", 1>> >> }

\* math.log2 of the lift of a candidate is a real number; the model draws it
GraphScoreChoices ==
  { [p \in AllProvisions |-> 0],
    [p \in AllProvisions |-> IF p \in {"a1", "b1"} THEN 2 ELSE 1],
    [p \in AllProvisions |-> IF p = "a2" THEN 2 ELSE IF p = "a1" THEN 1 ELSE 0] }

\* where the fingerprint of a seed comes from: "cached" is a hit of
\* get_cached_fingerprints or a fresh compute_fingerprint (both keep the
\* neighbours of the searched act that are not excluded), "stored" is a row
\* get_or_compute_and_cache returns as it is stored
\* "missing": no row of the current version, every seed is computed
FingerprintSources == {"cached", "stored", "missing"}

SeqMin(vals) == CHOOSE v \in Range(vals) : \A w \in Range(vals) : v <= w
SeqMax(vals) == CHOOSE v \in Range(vals) : \A w \in Range(vals) : v >= w

\* _minmax_scale: entry i is the fraction <<n, d>> of 100 the value is scaled
\* to, 100 * (v - vmin) / (vmax - vmin), and 50 when all values are equal
_minmax_scale(values) ==
  IF values = <<>> THEN <<>>
  ELSE IF SeqMax(values) <= SeqMin(values)
       THEN [i \in 1..Len(values) |-> <<1, 2>>]
       ELSE [i \in 1..Len(values) |->
               <<values[i] - SeqMin(values), SeqMax(values) - SeqMin(values)>>]

\* round(): to the nearest integer, a half goes to the even neighbour
RoundHalfEven(n, d) ==
  LET q == n \div d
      r == n % d
  IN IF 2 * r < d THEN q
     ELSE IF 2 * r > d THEN q + 1
     ELSE IF q % 2 = 0 THEN q ELSE q + 1

\* mutant: the spread of the scores is taken from zero
UrsFromZero(scores) ==
  [i \in 1..Len(scores) |->
     IF SeqMax(scores) <= SeqMin(scores) THEN 50
     ELSE RoundHalfEven(100 * scores[i], SeqMax(scores) - SeqMin(scores))]

\* _score_to_urs: int(round(scaled))
_score_to_urs(scores) ==
  LET scaled == _minmax_scale(scores)
  IN [i \in 1..Len(scores) |-> RoundHalfEven(100 * scaled[i][1], scaled[i][2])]

\* sorted(..., key=score, reverse=True): stable, entries are <<id, score>>
SortByScore(entries) == SortDesc(entries)

\* mutant: the slice takes one entry more than k
WindowInclusive(sq, offset, k) ==
  SubSeq(sq, offset + 1, Min(Len(sq), offset + k + 1))

\* composite[offset:offset + k]
Window(sq, offset, k) ==
  SubSeq(sq, offset + 1, Min(Len(sq), offset + k))

RECURSIVE Concat(_)
Concat(sqs) == IF sqs = <<>> THEN <<>> ELSE Head(sqs) \o Concat(Tail(sqs))

NoResponse ==
  [status |-> "none", results |-> <<>>, offset |-> 0, limit |-> 0, total |-> 0,
   next_offset |-> {}, note |-> "", provisions |-> <<>>, num_seeds |-> 0,
   multi_act |-> FALSE, act_ids |-> <<>>, per_act |-> <<>>, parts |-> <<>>]

\* mutant: the last full page still announces a next one
NextOffsetInclusive(offset, k, total) == IF offset + k <= total THEN {offset + k} ELSE {}

\* "next_offset": offset + k if offset + k < total else None
NextOffset(offset, k, total) == IF offset + k < total THEN {offset + k} ELSE {}

\* the neighbours a search gets for a seed, before it filters them
NeighborsFor(seed, act, source) ==
  IF source = "stored" THEN StoredNeighbors[seed]
  ELSE SelectSeq(StoredNeighbors[seed], LAMBDA n :
         _belongs_to_act(n, act) /\ ~is_excluded_provision(act, n))

\* compute_fingerprint_multi over the missing seeds: the neighbours of the
\* seeds of the act, without the seeds
MultiNeighbors(seed_seq, act) ==
  SelectSeq(Dedupe(Concat([i \in 1..Len(seed_seq) |->
              IF _belongs_to_act(seed_seq[i], act)
              THEN NeighborsFor(seed_seq[i], act, "cached") ELSE <<>>])),
            LAMBDA n : n \notin Range(seed_seq))

\* mutant: the seeds get no self-boost
RelatedIdsNoBoost(seed_seq, act, source) ==
  Dedupe(Concat([i \in 1..Len(seed_seq) |->
    SelectSeq(NeighborsFor(seed_seq[i], act, source),
              LAMBDA n : ~is_excluded_provision(act, n))]))

\* the keys of related_scores in insertion order. With more than
\* SEED_MULTI_THRESHOLD missing seeds: the neighbours of the multi-seed
\* fingerprint that are not excluded, then every seed (the self-boost);
\* otherwise per seed its neighbours that are not excluded, then the seed
RelatedIds(seed_seq, act, source) ==
  IF source = "missing" /\ Len(seed_seq) > SEED_MULTI_THRESHOLD
  THEN Dedupe(SelectSeq(MultiNeighbors(seed_seq, act),
                        LAMBDA n : ~is_excluded_provision(act, n)) \o seed_seq)
  ELSE Dedupe(Concat([i \in 1..Len(seed_seq) |->
         Append(SelectSeq(NeighborsFor(seed_seq[i], act, source),
                          LAMBDA n : ~is_excluded_provision(act, n)),
                seed_seq[i])]))

LexScore(lex, iid) ==
  IF \E i \in 1..Len(lex) : lex[i][1] = iid
  THEN lex[CHOOSE i \in 1..Len(lex) : lex[i][1] = iid][2]
  ELSE 0

\* the composite scores of the candidates, W_GRAPH * graph_part + W_LEX *
\* lex_component, as numerators over the common denominator of the two scalings
Composite(candidate_ids, lex, graph_score) ==
  LET lex_norm == _minmax_scale([i \in 1..Len(candidate_ids) |-> LexScore(lex, candidate_ids[i])])
      graph_scaled == _minmax_scale([i \in 1..Len(candidate_ids) |-> graph_score[candidate_ids[i]]])
  IN [i \in 1..Len(candidate_ids) |->
       <<candidate_ids[i],
         W_GRAPH * graph_scaled[i][1] * lex_norm[i][2]
           + W_LEX * lex_norm[i][1] * graph_scaled[i][2]>>]

\* _unified_search_single_act on a cache miss
_unified_search_single_act(query, raw_k, raw_offset, act, lex_all, graph_score, source) ==
  LET k == Max(1, Min(raw_k, MAX_LIMIT))
      offset == Max(0, raw_offset)
      provisions == parse_query(query, act)
      explicit == SelectSeq(provisions, LAMBDA pid : ~is_excluded_provision(act, pid))
      lex_candidates == SelectSeq(lex_all, LAMBDA e :
                          _belongs_to_act(e[1], act) /\ ~is_excluded_provision(act, e[1]))
      top_seed_candidates == Take(lex_candidates, SEED_TOP)
      m_scaled == _minmax_scale([i \in 1..Len(top_seed_candidates) |-> top_seed_candidates[i][2]])
      weighted == SelectSeq([i \in 1..Len(top_seed_candidates) |->
                               <<top_seed_candidates[i][1], m_scaled[i][1]>>],
                            LAMBDA e : e[2] > 0)
      lex_seeds == [i \in 1..Len(weighted) |-> weighted[i][1]]
      seed_seq == IF explicit = <<>> /\ lex_candidates # <<>> THEN lex_seeds ELSE explicit
      candidate_ids == RelatedIds(seed_seq, act, source)
      composite == SortByScore(Composite(candidate_ids, lex_candidates, graph_score))
      urs_vals == _score_to_urs([i \in 1..Len(composite) |-> composite[i][2]])
      window == Window(composite, offset, k)
      lex_window == Window(lex_candidates, offset, k)
      base == [NoResponse EXCEPT !.status = "ok", !.offset = offset, !.limit = k,
                                 !.provisions = provisions, !.num_seeds = Len(seed_seq)]
  IN IF seed_seq = <<>> /\ lex_candidates = <<>>
     THEN [base EXCEPT !.note = "No lexical or exact seeds"]
     ELSE IF candidate_ids = <<>> /\ lex_candidates # <<>>
     THEN [base EXCEPT
             !.results = [i \in 1..Len(lex_window) |->
                            [id |-> lex_window[i][1], act_id |-> "",
                             score_urs |-> IF i = 1 THEN 100 ELSE 80]],
             !.total = Len(lex_candidates),
             !.next_offset = NextOffset(offset, k, Len(lex_candidates)),
             !.note = "Fallback lexical only"]
     ELSE [base EXCEPT
             !.results = [i \in 1..Len(window) |->
                            [id |-> window[i][1], act_id |-> act,
                             score_urs |-> IF offset + i <= Len(urs_vals)
                                           THEN urs_vals[offset + i] ELSE 0]],
             !.total = Len(composite),
             !.next_offset = NextOffset(offset, k, Len(composite))]

\* mutant: a later result of the same id replaces the earlier one
MergeKeepLast(merged, item) ==
  IF \E i \in 1..Len(merged) : merged[i].id = item.id
  THEN [i \in 1..Len(merged) |-> IF merged[i].id = item.id THEN item ELSE merged[i]]
  ELSE Append(merged, item)

\* merged[iid] = item when the id is new or the item's score_urs is higher
MergeItem(merged, item) ==
  IF \E i \in 1..Len(merged) : merged[i].id = item.id
  THEN [i \in 1..Len(merged) |->
          IF merged[i].id = item.id /\ item.score_urs > merged[i].score_urs
          THEN item ELSE merged[i]]
  ELSE Append(merged, item)

RECURSIVE MergeAll(_)
MergeAll(per_act_results) ==
  IF per_act_results = <<>> THEN <<>>
  ELSE MergeItem(MergeAll(SubSeq(per_act_results, 1, Len(per_act_results) - 1)),
                 per_act_results[Len(per_act_results)])

\* sorted(merged.values(), key=score_urs, reverse=True)
RECURSIVE InsertByUrs(_, _)
InsertByUrs(sorted, item) ==
  IF sorted = <<>> THEN <<item>>
  ELSE IF Head(sorted).score_urs >= item.score_urs
       THEN <<Head(sorted)>> \o InsertByUrs(Tail(sorted), item)
       ELSE <<item>> \o sorted

RECURSIVE SortByUrs(_)
SortByUrs(sq) ==
  IF sq = <<>> THEN <<>>
  ELSE InsertByUrs(SortByUrs(SubSeq(sq, 1, Len(sq) - 1)), sq[Len(sq)])

\* unified_search with act_id "*": one single-act search per configured act
\* with k + offset and offset 0, then merge, sort and window
unified_search_multi(query, raw_k, raw_offset, lex_all, graph_score, source) ==
  LET k == Max(1, Min(raw_k, MAX_LIMIT))
      offset == Max(0, raw_offset)
      payloads == [i \in 1..Len(Acts) |->
                     _unified_search_single_act(query, k + offset, 0, Acts[i],
                                                lex_all, graph_score, source)]
      combined == SortByUrs(MergeAll(Concat([i \in 1..Len(Acts) |-> payloads[i].results])))
  IN [NoResponse EXCEPT
        !.status = "ok",
        !.results = Window(combined, offset, k),
        !.offset = offset, !.limit = k,
        !.total = Len(combined),
        !.next_offset = NextOffset(offset, k, Len(combined)),
        !.note = "Multi-act aggregation over per-Act unified search results",
        !.provisions = payloads[1].provisions,
        !.multi_act = TRUE,
        !.act_ids = Acts,
        !.parts = [i \in 1..Len(Acts) |-> payloads[i].results]]

\* the request fails: the exception leaves unified_search
Raised == [NoResponse EXCEPT !.status = "error"]

RawKs3 == -1..MaxRawK \cup {MAX_LIMIT, MAX_LIMIT + 1}
RawOffsets3 == -1..MaxRawOffset

RespInit ==
  /\ rq \in [act_id : {"A", "*"}, query : QueryTexts, k : RawKs3, offset : RawOffsets3,
             lex : LexChoices, graph_score : GraphScoreChoices,
             source : FingerprintSources, fails : {{}, {"B"}}]
  /\ rs = NoResponse

RespQuiet ==
  /\ rq = [act_id |-> "A", query |-> <<>>, k |-> 0, offset |-> 0, lex |-> <<>>,
           graph_score |-> [p \in AllProvisions |-> 0], source |-> "cached",
           fails |-> {}]
  /\ rs = NoResponse

\* unified_search for one act: the single-act search, its exception if it raises
SearchSingleAct ==
  /\ rs.status = "none"
  /\ rq.act_id # "*"
  /\ rs' = IF rq.act_id \in rq.fails THEN Raised
           ELSE _unified_search_single_act(rq.query, rq.k, rq.offset, rq.act_id,
                                           rq.lex, rq.graph_score, rq.source)
  /\ UNCHANGED <<rq, pushVars, storeVars, lazyVars, engVars>>

\* unified_search for "*": an exception of a single-act search is not caught
SearchAllActs ==
  /\ rs.status = "none"
  /\ rq.act_id = "*"
  /\ rs' = IF \E i \in 1..Len(Acts) : Acts[i] \in rq.fails THEN Raised
           ELSE unified_search_multi(rq.query, rq.k, rq.offset, rq.lex,
                                     rq.graph_score, rq.source)
  /\ UNCHANGED <<rq, pushVars, storeVars, lazyVars, engVars>>

NextResponse == SearchSingleAct \/ SearchAllActs

\* ---- Part IV: concurrent requests that compute a fingerprint lazily ----
NumRequests == 2
Requests == 1..NumRequests

IdleRequest ==
  [pc |-> "idle", seed |-> "a", faulty |-> FALSE, row |-> 0, neighbors |-> <<>>,
   ran_goc |-> FALSE, write_failed |-> FALSE, outcome |-> "none"]

\* the row a writer stores for a seed at a version
FingerprintRow(seed_id, version) ==
  [source_id |-> seed_id, graph_version |-> version,
   neighbors |-> LazyFingerprints[seed_id].items]

\* the ids of the rows of a source, in id order
RowsOf(rows, seed_id) == {i \in 1..Len(rows) : rows[i].source_id = seed_id}

\* Query.first(): the first row of the source, 0 for None
FirstRow(rows, seed_id) ==
  IF RowsOf(rows, seed_id) = {} THEN 0
  ELSE CHOOSE i \in RowsOf(rows, seed_id) : \A j \in RowsOf(rows, seed_id) : i <= j

\* row.graph_version == current_version and row.neighbors
RowServes(row) == row.graph_version = CurrentVersion /\ row.neighbors # <<>>

\* the states of the table before the requests: no row, a row of an earlier
\* version, a row of the current version
LazyInit ==
  /\ req \in [Requests -> {[IdleRequest EXCEPT !.seed = sd, !.faulty = ft] :
                             sd \in Provisions, ft \in BOOLEAN}]
  /\ fp_rows \in {<<>>, <<FingerprintRow("a", CurrentVersion - 1)>>,
                  <<FingerprintRow("a", CurrentVersion)>>}
  /\ fp_unique \in BOOLEAN
  /\ resp_cache = {}

LazyQuiet ==
  /\ req = [t \in Requests |-> IdleRequest]
  /\ fp_rows = <<>>
  /\ fp_unique = FALSE
  /\ resp_cache = {}

\* cached = _SEARCH_CACHE.get(cache_key): the thread is inside the lookup
CacheGetEnter(t) ==
  /\ req[t].pc = "idle"
  /\ req' = [req EXCEPT ![t].pc = "in_get"]
  /\ UNCHANGED <<fp_rows, fp_unique, resp_cache, pushVars, storeVars, respVars, engVars>>

\* the lookup returns: a hit is the response, a miss goes on to the seeds
CacheGetReturn(t) ==
  /\ req[t].pc = "in_get"
  /\ req' = IF req[t].seed \in resp_cache
            THEN [req EXCEPT ![t].pc = "done", ![t].outcome = "ok"]
            ELSE [req EXCEPT ![t].pc = "cached_fp"]
  /\ UNCHANGED <<fp_rows, fp_unique, resp_cache, pushVars, storeVars, respVars, engVars>>

\* get_cached_fingerprints: the rows of the seed at the expected version
GetCachedFingerprints(t) ==
  /\ req[t].pc = "cached_fp"
  /\ LET hits == {i \in RowsOf(fp_rows, req[t].seed) : RowServes(fp_rows[i])}
     IN IF hits = {}
        THEN req' = [req EXCEPT ![t].pc = "goc"]
        ELSE \E i \in hits :
               req' = [req EXCEPT ![t].pc = "ranked",
                                  ![t].neighbors = fp_rows[i].neighbors]
  /\ UNCHANGED <<fp_rows, fp_unique, resp_cache, pushVars, storeVars, respVars, engVars>>

\* get_or_compute_and_cache up to the computation: version, row query, hit
\* or compute_fingerprint
GocQuery(t) ==
  /\ req[t].pc = "goc"
  /\ LET row == FirstRow(fp_rows, req[t].seed)
     IN IF row # 0 /\ RowServes(fp_rows[row])
        THEN req' = [req EXCEPT ![t].pc = "ranked", ![t].ran_goc = TRUE,
                                ![t].row = row,
                                ![t].neighbors = fp_rows[row].neighbors]
        ELSE req' = [req EXCEPT ![t].pc = "commit", ![t].ran_goc = TRUE,
                                ![t].row = row,
                                ![t].neighbors = LazyFingerprints[req[t].seed].items]
  /\ UNCHANGED <<fp_rows, fp_unique, resp_cache, pushVars, storeVars, respVars, engVars>>

\* the row is updated or added and db.commit() runs; an exception of the
\* commit leaves get_or_compute_and_cache and the search
GocCommit(t) ==
  /\ req[t].pc = "commit"
  /\ LET refused == \/ req[t].faulty
                    \/ /\ req[t].row = 0 /\ fp_unique
                       /\ RowsOf(fp_rows, req[t].seed) # {}
         written == FingerprintRow(req[t].seed, CurrentVersion)
     IN IF refused
        THEN /\ req' = [req EXCEPT ![t].pc = "error", ![t].write_failed = TRUE,
                                   ![t].outcome = "error"]
             /\ fp_rows' = fp_rows
        ELSE /\ req' = [req EXCEPT ![t].pc = "ranked"]
             /\ fp_rows' = IF req[t].row # 0
                           THEN [fp_rows EXCEPT ![req[t].row] = written]
                           ELSE Append(fp_rows, written)
  /\ UNCHANGED <<fp_unique, resp_cache, pushVars, storeVars, respVars, engVars>>

\* _SEARCH_CACHE[cache_key] = payload: the thread is inside the insert
CachePutEnter(t) ==
  /\ req[t].pc = "ranked"
  /\ req' = [req EXCEPT ![t].pc = "in_put"]
  /\ UNCHANGED <<fp_rows, fp_unique, resp_cache, pushVars, storeVars, respVars, engVars>>

\* the insert returns and the payload is the response
CachePutReturn(t) ==
  /\ req[t].pc = "in_put"
  /\ resp_cache' = resp_cache \cup {req[t].seed}
  /\ req' = [req EXCEPT ![t].pc = "done", ![t].outcome = "ok"]
  /\ UNCHANGED <<fp_rows, fp_unique, pushVars, storeVars, respVars, engVars>>

NextLazy ==
  \E t \in Requests :
    \/ CacheGetEnter(t) \/ CacheGetReturn(t) \/ GetCachedFingerprints(t)
    \/ GocQuery(t) \/ GocCommit(t) \/ CachePutEnter(t) \/ CachePutReturn(t)

\* ---- Part V: _ensure_parent_child_snapshot ----
MaxVersion == 4

\* while len(_PARENT_CHILD_CACHE) > 2: pop the first key
RECURSIVE PopWhileOver(_)
PopWhileOver(keys) == IF Len(keys) > 2 THEN PopWhileOver(Tail(keys)) ELSE keys

\* the requested version moves to the end of the recency order
Touch(order, version) == Append(SelectSeq(order, LAMBDA v : v # version), version)

\* the least recently used of the keys
LeastRecent(order, keys) ==
  order[CHOOSE i \in 1..Len(order) :
          /\ order[i] \in Range(keys)
          /\ \A j \in 1..Len(order) : order[j] \in Range(keys) => i <= j]

SnapInit ==
  /\ snap_version = 1
  /\ pcache = <<>>
  /\ recency = <<>>
  /\ evicted = 0
  /\ lru_then = 0

SnapQuiet == SnapInit

\* ---- Part V: the citation expansion of _expand_local_subgraph ----
BfsScale == 3
RADIUS == 2

\* MAX_NODES = 5000 and MAX_EDGES = 40_000, scaled to the tables of the model
MAX_NODES == BfsScale
MAX_EDGES == BfsScale + 1

\* the provisions of act A, one of them excluded, and one of another act
BfsAct == "A"
BfsActOf == [p \in {"A_1", "A_2", "A_3", "A_4", "A_x"} |-> "A"] @@ [p \in {"B_1"} |-> "B"]
BfsExcluded == {"A_x"}

\* _belongs_to_act and is_excluded_provision for a row end
BfsAdmitted(pid) == BfsActOf[pid] = BfsAct /\ pid \notin BfsExcluded

\* the rows a Reference table is made of; target "" is a NULL target
CandidateRefs ==
  << <<"A_1", "A_2">>, <<"A_1", "A_3">>, <<"A_4", "A_1">>, <<"A_2", "A_3">>,
     <<"A_3", "A_4">>, <<"A_1", "A_x">>, <<"A_1", "B_1">>, <<"A_2", "">>,
     <<"A_2", "A_1">> >>

RefTables == {SelectIdx(CandidateRefs, I) : I \in SUBSET (1..Len(CandidateRefs))}

SeedSets == {{"A_1"}, {"A_2", "A_4"}, {"A_x"}, {"A_1", "B_1"}}

IdleBfs == [pc |-> "idle", round |-> 0, nodes |-> {}, edges |-> <<>>, frontier |-> {}]

\* the body of the loop over ref_rows, folded over
\* acc = [nodes, edges, next_frontier, stop]
RECURSIVE ScanRows(_, _)
ScanRows(acc, rows) ==
  IF rows = <<>> \/ acc.stop THEN acc
  ELSE
    LET source_id == Head(rows)[1]
        target_id == Head(rows)[2]
    IN IF target_id = "" \/ ~BfsAdmitted(source_id) \/ ~BfsAdmitted(target_id)
       THEN ScanRows(acc, Tail(rows))
       ELSE ScanRows([nodes |-> acc.nodes \cup {source_id, target_id},
                      edges |-> Append(acc.edges, <<source_id, target_id>>),
                      next_frontier |-> acc.next_frontier \cup {source_id, target_id},
                      stop |-> Len(acc.edges) + 1 >= MAX_EDGES],
                     Tail(rows))

BfsInit ==
  /\ bfs_refs \in RefTables
  /\ bfs_seeds \in SeedSets
  /\ bfs = IdleBfs

BfsQuiet ==
  /\ bfs_refs = <<>>
  /\ bfs_seeds = {}
  /\ bfs = IdleBfs

\* filtered_seeds; no seed of the act left: return set(), []
BfsStart ==
  /\ bfs.pc = "idle"
  /\ LET filtered_seeds == {sd \in bfs_seeds : BfsAdmitted(sd)}
     IN bfs' = IF filtered_seeds = {}
               THEN [IdleBfs EXCEPT !.pc = "expanded"]
               ELSE [IdleBfs EXCEPT !.pc = "loop", !.nodes = filtered_seeds,
                                    !.frontier = filtered_seeds]
  /\ UNCHANGED <<bfs_refs, bfs_seeds, snapVars, persistVars>>
  /\ UNCHANGED <<pushVars, storeVars, respVars, lazyVars>>

\* one pass of "for _ in range(RADIUS)": the rows that touch the frontier are
\* scanned; the loop is left when the edges reach MAX_EDGES
BfsRound ==
  /\ bfs.pc = "loop"
  /\ bfs.round < RADIUS
  /\ bfs.frontier # {} /\ Cardinality(bfs.nodes) < MAX_NODES
  /\ LET ref_rows == SelectSeq(bfs_refs, LAMBDA row :
                       row[1] \in bfs.frontier \/ row[2] \in bfs.frontier)
         acc == ScanRows([nodes |-> bfs.nodes, edges |-> bfs.edges,
                          next_frontier |-> {}, stop |-> FALSE], ref_rows)
     IN bfs' = [pc |-> IF Len(acc.edges) >= MAX_EDGES THEN "expanded" ELSE "loop",
                round |-> bfs.round + 1,
                nodes |-> acc.nodes,
                edges |-> acc.edges,
                frontier |-> acc.next_frontier \ bfs.frontier]
  /\ UNCHANGED <<bfs_refs, bfs_seeds, snapVars, persistVars>>
  /\ UNCHANGED <<pushVars, storeVars, respVars, lazyVars>>

\* the loop ends: RADIUS passes done, or the break at its head
BfsExit ==
  /\ bfs.pc = "loop"
  /\ bfs.round >= RADIUS \/ bfs.frontier = {} \/ Cardinality(bfs.nodes) >= MAX_NODES
  /\ bfs' = [bfs EXCEPT !.pc = "expanded"]
  /\ UNCHANGED <<bfs_refs, bfs_seeds, snapVars, persistVars>>
  /\ UNCHANGED <<pushVars, storeVars, respVars, lazyVars>>

NextBfs == BfsStart \/ BfsRound \/ BfsExit

\* ---- Part V: lazily computed fingerprints of a search's missing seeds ----
\* the seeds a search may carry, and the neighbours compute_fingerprint
\* finds for each; "s3" is isolated
PersistNeighbors ==
  [sd \in {"s1", "s2", "s3", "s4"} |->
     CASE sd = "s1" -> <<"s2">>
       [] sd = "s2" -> <<"s1">>
       [] sd = "s3" -> <<>>
       [] OTHER -> <<"s1">>]

\* seed_weights.keys() of the search followed, and of a search beside it
SeedLists == {<<"s1">>, <<"s2", "s3">>, <<"s1", "s2", "s3">>, <<"s1", "s2", "s3", "s4">>}
RivalSeedLists == {<<"s1">>, <<"s3", "s2">>, <<"s4", "s3", "s2", "s1">>}

PersistThreads == {1, 2}

IdlePersist ==
  [pc |-> "idle", seeds |-> <<>>, graph_version |-> 0, missing_seeds |-> {},
   unresolved_seeds |-> <<>>, idx |-> 0, current_version |-> 0, row |-> 0,
   writes |-> 0, bumps_seen |-> 0, others_seen |-> 0]

\* the row get_or_compute_and_cache stores for a seed
PersistRow(seed_id, version) ==
  [source_id |-> seed_id, graph_version |-> version,
   neighbors |-> PersistNeighbors[seed_id]]

\* rows committed by the other searches
OtherWrites(t) == SumFn([u \in PersistThreads |-> ps[u].writes], PersistThreads \ {t})

\* len(unresolved_seeds) > SEED_MULTI_THRESHOLD
UsesMultiFromThreshold(unresolved_seeds) == Len(unresolved_seeds) >= SEED_MULTI_THRESHOLD

UsesMulti(unresolved_seeds) == Len(unresolved_seeds) > SEED_MULTI_THRESHOLD

\* after the call for unresolved_seeds[idx]: the next seed, or the ranking
NextSeed(p) ==
  IF p.idx < Len(p.unresolved_seeds)
  THEN [p EXCEPT !.pc = "goc", !.idx = p.idx + 1]
  ELSE [p EXCEPT !.pc = "rank"]

PersistInit ==
  /\ ps \in {[t \in PersistThreads |->
                [IdlePersist EXCEPT !.seeds = IF t = 1 THEN sl ELSE rl]] :
               sl \in SeedLists, rl \in RivalSeedLists}
  /\ req = [t \in Requests |-> IdleRequest]
  /\ fp_rows \in {<<>>, <<PersistRow("s1", CurrentVersion - 1)>>,
                  <<PersistRow("s1", CurrentVersion)>>,
                  <<PersistRow("s3", CurrentVersion), PersistRow("s2", CurrentVersion)>>}
  /\ fp_unique \in BOOLEAN
  /\ resp_cache = {}

PersistQuiet == ps = [t \in PersistThreads |-> IdlePersist]

\* graph_version = get_graph_version(db); the response cache has no entry
PersistResolve(t) ==
  /\ ps[t].pc = "idle"
  /\ ps' = [ps EXCEPT ![t] = [@ EXCEPT !.pc = "lookup",
                                       !.graph_version = CurrentVersion,
                                       !.bumps_seen = bumps,
                                       !.others_seen = OtherWrites(t)]]
  /\ UNCHANGED <<snapVars, bfsVars>>
  /\ UNCHANGED <<pushVars, storeVars, respVars, lazyVars>>

\* get_cached_fingerprints and the choice between the multi-seed run and
\* the calls per seed
PersistLookup(t) ==
  /\ ps[t].pc = "lookup"
  /\ LET cached == {sd \in Range(ps[t].seeds) :
                      \E i \in RowsOf(fp_rows, sd) :
                        /\ fp_rows[i].graph_version = ps[t].graph_version
                        /\ fp_rows[i].neighbors # <<>>}
         missing == Range(ps[t].seeds) \ cached
         unresolved_seeds == SelectSeq(ps[t].seeds, LAMBDA sd : sd \in missing)
     IN ps' = [ps EXCEPT ![t] =
                 [@ EXCEPT !.missing_seeds = missing,
                           !.unresolved_seeds = unresolved_seeds,
                           !.idx = IF unresolved_seeds = <<>> \/ UsesMulti(unresolved_seeds)
                                   THEN 0 ELSE 1,
                           !.pc = IF unresolved_seeds = <<>> THEN "rank"
                                  ELSE IF UsesMulti(unresolved_seeds) THEN "multi"
                                  ELSE "goc"]]
  /\ UNCHANGED <<snapVars, bfsVars>>
  /\ UNCHANGED <<pushVars, storeVars, respVars, lazyVars>>

\* compute_fingerprint_multi: one push over the missing seeds, nothing stored
PersistMulti(t) ==
  /\ ps[t].pc = "multi"
  /\ ps' = [ps EXCEPT ![t].pc = "rank"]
  /\ UNCHANGED <<snapVars, bfsVars>>
  /\ UNCHANGED <<pushVars, storeVars, respVars, lazyVars>>

\* get_or_compute_and_cache for unresolved_seeds[idx], up to the
\* computation: version, row query, hit or compute_fingerprint
PersistGocQuery(t) ==
  /\ ps[t].pc = "goc"
  /\ LET seed_id == ps[t].unresolved_seeds[ps[t].idx]
         row == FirstRow(fp_rows, seed_id)
         seen == [ps[t] EXCEPT !.current_version = CurrentVersion, !.row = row]
     IN ps' = [ps EXCEPT ![t] =
                 IF /\ row # 0
                    /\ fp_rows[row].graph_version = CurrentVersion
                    /\ fp_rows[row].neighbors # <<>>
                 THEN NextSeed(seen)
                 ELSE [seen EXCEPT !.pc = "commit"]]
  /\ UNCHANGED <<snapVars, bfsVars>>
  /\ UNCHANGED <<pushVars, storeVars, respVars, lazyVars>>

\* the row is updated or added and db.commit() runs; a refused insert
\* raises out of the search
PersistGocCommit(t) ==
  /\ ps[t].pc = "commit"
  /\ LET seed_id == ps[t].unresolved_seeds[ps[t].idx]
         refused == ps[t].row = 0 /\ fp_unique /\ RowsOf(fp_rows, seed_id) # {}
         written == PersistRow(seed_id, ps[t].current_version)
     IN IF refused
        THEN /\ ps' = [ps EXCEPT ![t].pc = "error"]
             /\ fp_rows' = fp_rows
        ELSE /\ ps' = [ps EXCEPT ![t] = NextSeed([@ EXCEPT !.writes = @ + 1])]
             /\ fp_rows' = IF ps[t].row # 0
                           THEN [fp_rows EXCEPT ![ps[t].row] = written]
                           ELSE Append(fp_rows, written)
  /\ UNCHANGED <<req, fp_unique, resp_cache, snapVars, bfsVars>>
  /\ UNCHANGED <<pushVars, storeVars, respVars>>

\* ranking, payload, response cache entry: the search returns
PersistReturn(t) ==
  /\ ps[t].pc = "rank"
  /\ ps' = [ps EXCEPT ![t].pc = "done"]
  /\ UNCHANGED <<snapVars, bfsVars>>
  /\ UNCHANGED <<pushVars, storeVars, respVars, lazyVars>>

EngQuiet == SnapQuiet /\ BfsQuiet /\ PersistQuiet

\* bump_graph_version between two requests
SnapshotBump ==
  /\ snap_version < MaxVersion
  /\ snap_version' = snap_version + 1
  /\ UNCHANGED <<pcache, recency, evicted, lru_then, bfsVars, persistVars>>
  /\ UNCHANGED <<pushVars, storeVars, respVars, lazyVars>>

\* _PARENT_CHILD_CACHE.get(version) finds the snapshot and returns it
SnapshotHit(version) ==
  /\ version <= snap_version
  /\ version \in Range(pcache)
  /\ recency' = Touch(recency, version)
  /\ evicted' = 0
  /\ lru_then' = 0
  /\ UNCHANGED <<snap_version, pcache, bfsVars, persistVars>>
  /\ UNCHANGED <<pushVars, storeVars, respVars, lazyVars>>

\* the snapshot is built, stored under the version, and the first keys are
\* popped while the dict has more than two
SnapshotInstall(version) ==
  /\ version <= snap_version
  /\ version \notin Range(pcache)
  /\ pcache' = PopWhileOver(Append(pcache, version))
  /\ recency' = Touch(recency, version)
  /\ evicted' = IF Len(pcache) >= 2 THEN Head(pcache) ELSE 0
  /\ lru_then' = IF Len(pcache) >= 2 THEN LeastRecent(recency, pcache) ELSE 0
  /\ UNCHANGED <<snap_version, bfsVars, persistVars>>
  /\ UNCHANGED <<pushVars, storeVars, respVars, lazyVars>>

\* a request thread holds the version it read when it started
NextSnap ==
  \/ SnapshotBump
  \/ \E version \in 1..MaxVersion : SnapshotHit(version) \/ SnapshotInstall(version)

InitSnap ==
  StoreQuiet /\ PushQuiet /\ RespQuiet /\ LazyQuiet /\ SnapInit /\ BfsQuiet /\ PersistQuiet

InitBfs ==
  StoreQuiet /\ PushQuiet /\ RespQuiet /\ LazyQuiet /\ SnapQuiet /\ BfsInit /\ PersistQuiet

SpecBfs == InitBfs /\ [][NextBfs]_vars

SpecSnap == InitSnap /\ [][NextSnap]_vars

InitLazy == StoreQuiet /\ PushQuiet /\ RespQuiet /\ LazyInit /\ EngQuiet

SpecLazy == InitLazy /\ [][NextLazy]_vars

InitResponse == RespInit /\ StoreQuiet /\ PushQuiet /\ LazyQuiet /\ EngQuiet

SpecResponse == InitResponse /\ [][NextResponse]_vars

Init == StoreInit /\ PushQuiet /\ RespQuiet /\ LazyQuiet /\ EngQuiet

BumpNext == \E b \in Bumpers : BumpRead(b) \/ BumpCommit(b) \/ BumpReturn(b)

SearchStep(s) ==
  \/ SearchBegin(s) \/ SearchFingerprints(s)
  \/ SearchGetOrCompute(s) \/ SearchRank(s)

SearchNext == \E s \in Searches : SearchStep(s)

IngestNext ==
  \/ IngestBegin \/ LoadDelete \/ LoadBaseline \/ LoadFingerprints \/ IngestInterrupt
  \/ DocxRun

\* searches and version bumps
Next == BumpNext \/ SearchNext

Spec == Init /\ [][Next]_vars

\* ingest runs beside one request thread and one operator bump
OperatorBump == BumpRead(1) \/ BumpCommit(1) \/ BumpReturn(1)

\* searches with missing seeds beside one operator bump; the store has
\* been bumped once before
PersistStoreInit ==
  /\ graph_meta = <<2>>
  /\ fingerprints = <<>>
  /\ baseline = <<>>
  /\ search_cache = <<>>
  /\ search = [s \in Searches |-> IdleSearch]
  /\ bumper = [b \in Bumpers |-> IdleBumper]
  /\ ingest = IdleIngest
  /\ fp_default = 0
  /\ bumps = 0

NextPersist ==
  \/ OperatorBump
  \/ \E t \in PersistThreads :
       \/ PersistResolve(t) \/ PersistLookup(t) \/ PersistMulti(t)
       \/ PersistGocQuery(t) \/ PersistGocCommit(t) \/ PersistReturn(t)

InitPersist ==
  PersistStoreInit /\ PushQuiet /\ RespQuiet /\ SnapQuiet /\ BfsQuiet /\ PersistInit

SpecPersist == InitPersist /\ [][NextPersist]_vars

NextIngest == IngestNext \/ SearchStep(1) \/ OperatorBump

SpecIngest == Init /\ [][NextIngest]_vars

NextPush == PushStep \/ PushReturn

InitPush == (InitSingle \/ InitMulti) /\ StoreQuiet /\ RespQuiet /\ LazyQuiet /\ EngQuiet

SpecPush == InitPush /\ [][NextPush]_vars

\* the while loop runs in one thread that keeps running: an iteration that can
\* be taken is taken
SpecPushFair == InitPush /\ [][NextPush]_vars /\ WF_vars(PushStep)

\* the fixed-point arithmetic of the model never rounds
ExactArithmetic == exact

\* ---- claims about the push ----
TotalMass == SumFn(ppr, Nodes) + SumFn(residual, Nodes)

\* C8: APPR push conserves mass: when _approx_ppr_push has terminated, the
\* ppr masses plus the residuals sum to 1 (1e-9 is below one unit of the
\* fixed-point scale, so the sum must be exactly One).
C8_MassConserved == ppc = "done" => TotalMass = One

\* what the code does instead: the mass that is missing at termination is
\* exactly the total of the increments skipped as < eps
MassPlusSkipped == TotalMass + skipped = One

SingleSeed == Len(seeds) = 1 /\ seeds[1][2] = One /\ seed_ids = {seeds[1][1]}

\* the seed has no out-edge: its row is the self-loop fallback of weight 1.0
IsolatedSeed ==
  /\ SingleSeed
  /\ NeighborsOf(adj_norm, seeds[1][1]) = << <<seeds[1][1], 20, 20>> >>

Abs(x) == IF x < 0 THEN -x ELSE x

\* C9 as stated: for a single isolated seed compute_fingerprint returns no
\* neighbours and a captured mass of about 1 - gamma (within eps).
C9_IsolatedCapturedOneMinusGamma ==
  (ppc = "done" /\ IsolatedSeed) =>
    /\ items = <<>>
    /\ Abs(captured - (One - (GammaNum * One) \div GammaDen)) < EPS

\* C9 as amended: for a single isolated seed compute_fingerprint returns no
\* neighbours and a captured mass within eps of 1: the self-loop recirculates
\* the seed's mass and captured is summed before the seed is dropped.
C9_IsolatedCapturedNearOne ==
  (ppc = "done" /\ IsolatedSeed) =>
    /\ items = <<>>
    /\ captured <= One
    /\ One - captured < EPS

C9_Witness == ppc = "done" /\ IsolatedSeed /\ items = <<>> /\ captured > 0

\* C10: every node placed on the queue, the seeds placed at initialisation
\* included, has residual >= eps at the moment it is enqueued.
C10_EnqueuedAtLeastEps == \A e \in enq_log : e[2] >= EPS

\* C11: no fingerprint has a seed among its neighbours: not the one
\* compute_fingerprint or compute_fingerprint_multi returns (for the seeds of
\* positive weight), not the ones the Indexer builds, not the ones
\* get_or_compute_and_cache stores
C11_SeedNotInNeighbors ==
  /\ ppc = "done" => \A i \in 1..Len(items) : items[i][1] \notin seed_ids
  /\ \A p \in Provisions :
       /\ p \notin {LazyFingerprints[p].items[i][1] : i \in 1..Len(LazyFingerprints[p].items)}
       /\ p \notin {IndexFingerprints[p].items[i][1] : i \in 1..Len(IndexFingerprints[p].items)}

\* a multi-seed push has ended, every seed holds mass and neighbours are left
C11_Witness ==
  /\ ppc = "done"
  /\ Len(seeds) >= 2
  /\ items # <<>>
  /\ \A sd \in seed_ids : ppr[sd] > 0

\* ---- claims about the graph version, the response cache and the ingest ----
\* C1: a call that starts after a bump has committed does not return a payload
\* that entered the response cache before that bump: the entry a call returns
\* from the cache was inserted at or after the last bump commit the call saw
C1_PostBumpCallSkipsPreBumpEntry ==
  \A s \in Searches :
    (search[s].pc = "idle" /\ search[s].cached) =>
      search[s].entry_at >= search[s].started

\* C2: every stored fingerprint a search aggregates, from get_cached_fingerprints
\* or from a hit of get_or_compute_and_cache, is stamped with the graph version
\* the search resolved at its start
C2_StoredFingerprintOfResolvedVersion ==
  \A s \in Searches :
    \A r \in search[s].reads :
      r.kind = "fingerprint" =>
        r.graph_version = search[s].graph_version

\* C3: a baseline score or fingerprint installed by the Indexer is read by a
\* search only if a bump committed after the installation and before the
\* search resolved its graph version
C3_IndexerArtifactsReadOnlyAfterBump ==
  \A s \in Searches :
    \A r \in search[s].reads :
      r.by = "indexer" => r.at < search[s].started

\* C4: after an ingest run that loaded the relatedness data with no concurrent
\* bump, the graph version is one higher than before the run and every
\* fingerprint row the run persisted is a hit of get_cached_fingerprints at it
C4_IngestStampsNewVersion ==
  (ingest.pc = "done" /\ ingest.loaded /\ bumps = ingest.began_at) =>
    /\ CurrentVersion = ingest.before_version + 1
    /\ \A p \in Provisions :
         (p \in DOMAIN fingerprints /\ fingerprints[p].by = "indexer") =>
           FingerprintHit(p, CurrentVersion)

\* C5: after an interrupted ingest run the baseline rows are the rows stored
\* before the run, and every fingerprint row that was stamped with the graph
\* version current at the start of the run is still stored, unchanged unless a
\* search has recomputed it
C5_InterruptedRunLeavesArtifacts ==
  ingest.pc = "interrupted" =>
    /\ \A p \in DOMAIN ingest.before_baseline :
         p \in DOMAIN baseline /\ baseline[p] = ingest.before_baseline[p]
    /\ \A p \in DOMAIN ingest.before_fp :
         ingest.before_fp[p].graph_version = ingest.before_version =>
           /\ p \in DOMAIN fingerprints
           /\ fingerprints[p] = ingest.before_fp[p] \/ fingerprints[p].by = "lazy"

\* C6: an ingest run that loaded the relatedness data has the version bump as
\* its last write to the store
C6_LoadEndsWithBump ==
  (ingest.pc = "done" /\ ingest.loaded) => ingest.last_write = "bump"

\* C7: when all the bumps have returned, each having found the seeded row, the
\* graph version is higher than the seed version 1 by the number of bumps and
\* no two bumps have returned the same value
C7_BumpsAddUp ==
  (\A b \in Bumpers : bumper[b].pc = "done" /\ ~bumper[b].fresh) =>
    /\ CurrentVersion = 1 + NumBumpers
    /\ \A b1, b2 \in Bumpers : b1 # b2 => bumper[b1].ret # bumper[b2].ret

\* ---- claims about the response ----
\* C12: every response has offset >= 0, 0 < limit <= 100, total >= |results|
\* and next_offset = offset + limit when offset + limit < total, none otherwise
C12_Pagination ==
  rs.status = "ok" =>
    /\ rs.offset >= 0
    /\ 0 < rs.limit /\ rs.limit <= 100
    /\ rs.total >= Len(rs.results)
    /\ rs.next_offset = IF rs.offset + rs.limit < rs.total
                        THEN {rs.offset + rs.limit} ELSE {}

\* a multi-act response to a request with k below 1 that has a next page
C12_Witness ==
  /\ rs.status = "ok" /\ rs.multi_act
  /\ rq.k < 1 /\ rq.offset > 0
  /\ rs.results # <<>> /\ rs.next_offset # {}

\* C13: every score_urs of every response is an integer in 0..100
C13_UrsInRange ==
  rs.status = "ok" =>
    \A i \in 1..Len(rs.results) : rs.results[i].score_urs \in 0..100

\* three or more results, one of them scaled to neither end nor the middle
C13_Witness ==
  /\ rs.status = "ok"
  /\ Len(rs.results) >= 3
  /\ \E i \in 1..Len(rs.results) : rs.results[i].score_urs \notin {0, 50, 100}

\* C14: no result of a response is a provision on the exclusion list of its act
C14_NoExcludedResult ==
  rs.status = "ok" =>
    \A i \in 1..Len(rs.results) :
      rs.results[i].id \notin Excluded[ActOf[rs.results[i].id]]

\* the ids a token of the query resolves to in a search of the act
Recognised(query, act) ==
  {tk[2] : tk \in {t \in Range(query) :
                     (t[1] = "" /\ ActOf[t[2]] = act) \/ (t[1] # "" /\ ActOf[t[2]] = t[1])}}

\* C15: a single-act search whose recognised ids are all excluded and whose
\* act has no lexical match that is not excluded answers with no results,
\* total 0, no next_offset and the note "No lexical or exact seeds", and its
\* interpretation lists the recognised ids
C15_EmptyResult ==
  (/\ rs.status = "ok" /\ ~rs.multi_act
   /\ Recognised(rq.query, rq.act_id) \subseteq Excluded[rq.act_id]
   /\ \A i \in 1..Len(rq.lex) :
        ActOf[rq.lex[i][1]] # rq.act_id \/ rq.lex[i][1] \in Excluded[rq.act_id]) =>
    /\ rs.results = <<>>
    /\ rs.total = 0
    /\ rs.next_offset = {}
    /\ rs.note = "No lexical or exact seeds"
    /\ Range(rs.provisions) = Recognised(rq.query, rq.act_id)

\* the empty response to a query that names an excluded id
C15_Witness ==
  /\ rs.status = "ok" /\ ~rs.multi_act
  /\ rs.note = "No lexical or exact seeds"
  /\ rs.provisions # <<>>
  /\ Range(rs.provisions) \subseteq Excluded[rq.act_id]

AllParts(r) == Concat(r.parts)

\* C16: the multi-act response queries every act; its results are per-act
\* results (corpus id included), no id twice, of each id the one with the
\* highest score_urs, in non-increasing order of score_urs, and they are the
\* window [offset, offset + k) of the list of all distinct ids
C16_MultiActMerge ==
  (rs.status = "ok" /\ rs.multi_act) =>
    /\ rs.act_ids = Acts /\ Len(rs.parts) = Len(Acts)
    /\ \A i, j \in 1..Len(rs.results) : i # j => rs.results[i].id # rs.results[j].id
    /\ \A i \in 1..Len(rs.results) :
         /\ \E a \in 1..Len(Acts) : rs.results[i] \in Range(rs.parts[a])
         /\ \A x \in Range(AllParts(rs)) :
              x.id = rs.results[i].id => x.score_urs <= rs.results[i].score_urs
    /\ \A i \in 1..Len(rs.results) - 1 :
         rs.results[i].score_urs >= rs.results[i + 1].score_urs
    /\ rs.total = Cardinality({x.id : x \in Range(AllParts(rs))})
    /\ Len(rs.results) = Min(rs.limit, Max(0, rs.total - rs.offset))

\* a provision comes back from two acts with different scores and is kept
C16_Witness ==
  /\ rs.status = "ok" /\ rs.multi_act
  /\ \E x \in Range(rs.parts[1]), y \in Range(rs.parts[2]) :
       /\ x.id = y.id /\ x.score_urs < y.score_urs
       /\ y \in Range(rs.results)

\* C17: when the single-act search raises for one act, the multi-act search
\* still answers, and its debug information names the act that failed
C17_FailedActTolerated ==
  (rq.act_id = "*" /\ rq.fails # {} /\ rs.status # "none") =>
    /\ rs.status = "ok"
    /\ \E i \in 1..Len(rs.per_act) : rs.per_act[i].act_id \in rq.fails

C28_RequestedWindow ==
  (rs.status = "ok" /\ ~rs.multi_act) =>
    /\ Len(rs.results) = Min(rs.limit, Max(0, rs.total - rs.offset))
    /\ \A i \in 1..Len(rs.results) - 1 :
         rs.results[i].score_urs >= rs.results[i + 1].score_urs
    /\ (rs.limit = 1 /\ rs.total >= 1 /\ rs.offset = rs.total - 1) =>
         (Len(rs.results) = 1 /\ rs.next_offset = {})

\* the last page of a ranked list of two or more, asked for with k = 1
C28_Witness ==
  /\ rs.status = "ok" /\ ~rs.multi_act
  /\ rq.k = 1 /\ rs.total >= 2 /\ rs.offset = rs.total - 1
  /\ Len(rs.results) = 1

\* the answer of unified_search to a request
AnswerOf(r) ==
  IF r.act_id = "*"
  THEN unified_search_multi(r.query, r.k, r.offset, r.lex, r.graph_score, r.source)
  ELSE _unified_search_single_act(r.query, r.k, r.offset, r.act_id, r.lex,
                                  r.graph_score, r.source)

\* C29: the total of a response is the total the same query, scope and store
\* give for the page k = 100, offset = 0
C29_TotalIndependentOfPage ==
  rs.status = "ok" =>
    rs.total = AnswerOf([rq EXCEPT !.k = MAX_LIMIT, !.offset = 0]).total

\* C30: every result of a single-act search is a provision of the act the
\* result reports, which is the act searched
C30_ResultBelongsToAct ==
  (rs.status = "ok" /\ ~rs.multi_act) =>
    \A i \in 1..Len(rs.results) :
      /\ rs.results[i].act_id = rq.act_id
      /\ _belongs_to_act(rs.results[i].id, rs.results[i].act_id)

\* ---- claims about concurrent requests ----
Finished(t) == req[t].pc \in {"done", "error"}

\* C18: when two requests have run get_or_compute_and_cache for one seed and
\* no commit was made to fail, both have completed without error and the
\* table holds exactly one row of the seed, the one a single writer stores
C18_LazyWriteIdempotent ==
  \A t1, t2 \in Requests :
    (/\ t1 # t2 /\ Finished(t1) /\ Finished(t2)
     /\ req[t1].seed = req[t2].seed
     /\ req[t1].ran_goc /\ req[t2].ran_goc
     /\ \A t \in Requests : ~req[t].faulty) =>
      /\ req[t1].outcome = "ok" /\ req[t2].outcome = "ok"
      /\ Cardinality(RowsOf(fp_rows, req[t1].seed)) = 1
      /\ \A i \in RowsOf(fp_rows, req[t1].seed) :
           fp_rows[i] = FingerprintRow(req[t1].seed, CurrentVersion)

\* C19: a request whose fingerprint write failed still has the computed
\* neighbours and does not end in an error
C19_WriteErrorIgnored ==
  \A t \in Requests :
    req[t].write_failed =>
      /\ req[t].outcome # "error"
      /\ req[t].neighbors = LazyFingerprints[req[t].seed].items

\* C20: no two requests are inside a lookup or an insert of the response
\* cache at the same time
C20_CacheMutex ==
  \A t1, t2 \in Requests :
    t1 # t2 => ~(req[t1].pc \in {"in_get", "in_put"} /\ req[t2].pc \in {"in_get", "in_put"})

\* the table holds a row of the seed stamped with the current version
StoredAtCurrent(seed_id) ==
  \E i \in RowsOf(fp_rows, seed_id) : fp_rows[i].graph_version = CurrentVersion

\* C23: while the table holds a fingerprint of the seed at the current
\* version, get_cached_fingerprints reports the seed as a hit and
\* get_or_compute_and_cache returns the stored row without computing
C23_StoredFingerprintFound ==
  [][\A t \in Requests :
       StoredAtCurrent(req[t].seed) =>
         /\ req[t].pc = "cached_fp" => req'[t].pc \in {"cached_fp", "ranked"}
         /\ req[t].pc = "goc" => req'[t].pc \in {"goc", "ranked"}]_vars

\* ---- further claims about the push ----
\* C26: during the push every node whose residual is at least eps is on the
\* queue and no node is on the queue twice; after the loop every residual is
\* below eps
C26_QueueHoldsResiduals ==
  /\ ppc = "push" =>
       /\ \A n \in DOMAIN residual : residual[n] >= EPS => n \in Range(queue)
       /\ \A i, j \in 1..Len(queue) : i # j => queue[i] # queue[j]
  /\ ppc = "done" => \A n \in DOMAIN residual : residual[n] < EPS

\* C25: the push terminates: the queue of _approx_ppr_push becomes empty
C25_PushTerminates == <>(queue = <<>>)

\* a push over a graph with a self-loop and a cycle of two nodes has returned
C25_Witness ==
  /\ ppc = "done" /\ queue = <<>>
  /\ \E n \in DOMAIN adj_norm : \E i \in 1..Len(adj_norm[n]) : adj_norm[n][i][1] = n
  /\ \E n, m \in DOMAIN adj_norm :
       /\ n # m
       /\ \E i \in 1..Len(adj_norm[n]) : adj_norm[n][i][1] = m
       /\ \E i \in 1..Len(adj_norm[m]) : adj_norm[m][i][1] = n
  /\ \E n \in DOMAIN ppr : ppr[n] > 0

\* ---- claims about the engine ----
\* C21: the snapshot cache holds at most 2 versions, and the version an
\* install evicts is the least recently used one
C21_SnapshotCacheLru ==
  /\ Len(pcache) <= 2
  /\ evicted = lru_then

\* a Reference row links the two provisions, in either direction
Linked(x, y) == <<x, y>> \in Range(bfs_refs) \/ <<y, x>> \in Range(bfs_refs)

\* C27: after the citation expansion the node set has at most MAX_NODES
\* nodes, the edge list at most MAX_EDGES edges, every node is within RADIUS
\* citation hops of a seed, and both ends of every edge are provisions of the
\* act that are not excluded
C27_ExpansionBounded ==
  bfs.pc = "expanded" =>
    /\ Cardinality(bfs.nodes) <= MAX_NODES
    /\ Len(bfs.edges) <= MAX_EDGES
    /\ \A n \in bfs.nodes :
         \E sd \in bfs_seeds :
           \/ n = sd
           \/ Linked(sd, n)
           \/ \E m \in DOMAIN BfsActOf : Linked(sd, m) /\ Linked(m, n)
    /\ \A i \in 1..Len(bfs.edges) :
         BfsAdmitted(bfs.edges[i][1]) /\ BfsAdmitted(bfs.edges[i][2])

\* ---- lazily computed fingerprints ----
\* the table holds a fingerprint of the seed stamped with the current version
PersistedAtCurrent(seed_id) ==
  \E i \in RowsOf(fp_rows, seed_id) : fp_rows[i].graph_version = CurrentVersion

\* no bump and no other search's row was committed since the search began
Undisturbed(t) ==
  bumps = ps[t].bumps_seen /\ OtherWrites(t) = ps[t].others_seen

====
